---- MODULE Spec2Model ----
(***************************************************************************)
(* Model of the BMS dashboard of src/Cell_Ch_Dc.py: the workflow phase     *)
(* engine (Workflow Management and User Controls pages), the auto-logger   *)
(* (Data Logging page) and the record store (Records & Comparison page).   *)
(*                                                                         *)
(* The program is a Streamlit script: every user interaction and every     *)
(* st.rerun() executes the script of the selected page from top to bottom  *)
(* against st.session_state.  One action of the model is one such script   *)
(* run, identified by the page and by the widget whose click caused it.    *)
(* The clock is in whole seconds.                                          *)
(***************************************************************************)
EXTENDS Integers, Sequences, FiniteSets, TLC

\* ---------------------------------------------------------------- bounds
MaxTime == 6       \* the clock stops advancing here
MaxDur  == 1       \* largest duration typed into the number inputs
MaxLog  == 1       \* cap on the number of stored historical records
MaxStore == 2      \* the same cap in the specification of the record store
MaxSample == 3     \* longest record list handed to the query and the summary
MaxSampleTime == 1 \* latest timestamp in those record lists
MaxDraw == 2       \* a uniform draw is one of MaxDraw + 1 points of its range

\* ------------------------------------------------------ program constants
MinDuration == 1   \* st.number_input(..., min_value=1, ...)
MaxDuration == 86400   \* st.number_input(..., max_value=86400, ...)
DebounceSeconds == 5   \* (...).seconds > 5
DaySeconds == 86400    \* timedelta.seconds is the remainder below one day
WindowSize == 10       \* historical_records[-min(10, len(...)):]

None == -1         \* Python None for phase_start_time

Phases == {"charging", "idle", "discharging"}
Durations == MinDuration..MaxDur

VARIABLES
    workflow_active,     \* st.session_state.workflow_active
    current_phase,       \* st.session_state.current_phase
    phase_start_time,    \* st.session_state.phase_start_time (None or a time)
    workflow_config,     \* {} while the key is absent, else {the stored dict}
    workflow_logs,       \* st.session_state.workflow_logs
    historical_records,  \* st.session_state.historical_records
    confirm_rendered,    \* the confirm button is on the page just rendered
    now,                 \* datetime.datetime.now(), in seconds
    op,                  \* the script run that produced this state
    rendered             \* what the last run of a display function put out

vars == <<workflow_active, current_phase, phase_start_time, workflow_config,
          workflow_logs, historical_records, confirm_rendered, now, op,
          rendered>>

\* ------------------------------------------------------------ timestamps
\* datetime.isoformat(): the date part and the time-of-day part of a time.
IsoFormat(t) == <<t \div DaySeconds, t % DaySeconds>>

\* datetime.fromisoformat(): the time a formatted timestamp denotes.
FromIsoFormat(s) == s[1] * DaySeconds + s[2]

\* timedelta.seconds: the seconds component of a non-negative difference.
TimedeltaSeconds(d) == d % DaySeconds

\* Order of two formatted timestamps as the sort key compares them: date
\* part first, then time of day.
TimestampLeq(a, b) == a[1] < b[1] \/ (a[1] = b[1] /\ a[2] <= b[2])

\* ------------------------------------------------------- phase scheduler
Hold(a, p, s, b) ==
    [active |-> a, phase |-> p, start |-> s, branch |-> b, rerun |-> FALSE]

PhaseCheckStrict(a, p, s, cfg, t) ==
    IF a /\ s # None
    THEN IF cfg # {}
         THEN LET config == CHOOSE c \in cfg : TRUE
                  elapsed_seconds == t - s
              IN  IF p = "charging" /\ elapsed_seconds > config.charge_duration
                  THEN [active |-> a, phase |-> "idle", start |-> t,
                        branch |-> "tick_charged", rerun |-> TRUE]
                  ELSE IF p = "idle" /\ elapsed_seconds > config.idle_duration
                  THEN [active |-> a, phase |-> "discharging", start |-> t,
                        branch |-> "tick_idled", rerun |-> TRUE]
                  ELSE IF p = "discharging"
                          /\ elapsed_seconds > config.discharge_duration
                  THEN [active |-> FALSE, phase |-> "idle", start |-> None,
                        branch |-> "tick_complete", rerun |-> TRUE]
                  ELSE Hold(a, p, s, "tick_hold")
         ELSE Hold(a, p, s, "tick_hold")
    ELSE Hold(a, p, s, "tick_inactive")

PhaseCheckUnguarded(a, p, s, cfg, t) ==
    IF s # None
    THEN IF cfg # {}
         THEN LET config == CHOOSE c \in cfg : TRUE
                  elapsed_seconds == t - s
              IN  IF p = "charging" /\ elapsed_seconds >= config.charge_duration
                  THEN [active |-> a, phase |-> "idle", start |-> t,
                        branch |-> "tick_charged", rerun |-> TRUE]
                  ELSE IF p = "idle" /\ elapsed_seconds >= config.idle_duration
                  THEN [active |-> a, phase |-> "discharging", start |-> t,
                        branch |-> "tick_idled", rerun |-> TRUE]
                  ELSE IF p = "discharging"
                          /\ elapsed_seconds >= config.discharge_duration
                  THEN [active |-> FALSE, phase |-> "idle", start |-> None,
                        branch |-> "tick_complete", rerun |-> TRUE]
                  ELSE Hold(a, p, s, IF a THEN "tick_hold" ELSE "tick_inactive")
         ELSE Hold(a, p, s, IF a THEN "tick_hold" ELSE "tick_inactive")
    ELSE Hold(a, p, s, "tick_inactive")

PhaseCheckKeepTimer(a, p, s, cfg, t) ==
    IF a /\ s # None
    THEN IF cfg # {}
         THEN LET config == CHOOSE c \in cfg : TRUE
                  elapsed_seconds == t - s
              IN  IF p = "charging" /\ elapsed_seconds >= config.charge_duration
                  THEN [active |-> a, phase |-> "idle", start |-> s,
                        branch |-> "tick_charged", rerun |-> TRUE]
                  ELSE IF p = "idle" /\ elapsed_seconds >= config.idle_duration
                  THEN [active |-> a, phase |-> "discharging", start |-> s,
                        branch |-> "tick_idled", rerun |-> TRUE]
                  ELSE IF p = "discharging"
                          /\ elapsed_seconds >= config.discharge_duration
                  THEN [active |-> FALSE, phase |-> "idle", start |-> None,
                        branch |-> "tick_complete", rerun |-> TRUE]
                  ELSE Hold(a, p, s, "tick_hold")
         ELSE Hold(a, p, s, "tick_hold")
    ELSE Hold(a, p, s, "tick_inactive")

PhaseCheckLoops(a, p, s, cfg, t) ==
    IF a /\ s # None
    THEN IF cfg # {}
         THEN LET config == CHOOSE c \in cfg : TRUE
                  elapsed_seconds == t - s
              IN  IF p = "charging" /\ elapsed_seconds >= config.charge_duration
                  THEN [active |-> a, phase |-> "idle", start |-> t,
                        branch |-> "tick_charged", rerun |-> TRUE]
                  ELSE IF p = "idle" /\ elapsed_seconds >= config.idle_duration
                  THEN [active |-> a, phase |-> "discharging", start |-> t,
                        branch |-> "tick_idled", rerun |-> TRUE]
                  ELSE IF p = "discharging"
                          /\ elapsed_seconds >= config.discharge_duration
                  THEN [active |-> a, phase |-> "charging", start |-> t,
                        branch |-> "tick_complete", rerun |-> TRUE]
                  ELSE Hold(a, p, s, "tick_hold")
         ELSE Hold(a, p, s, "tick_hold")
    ELSE Hold(a, p, s, "tick_inactive")

\* The "Current Status" block: the transition check of one script run.
\* branch names the branch taken, rerun whether it ended in st.rerun().
PhaseCheck(a, p, s, cfg, t) ==
    IF a /\ s # None
    THEN IF cfg # {}
         THEN LET config == CHOOSE c \in cfg : TRUE
                  elapsed_seconds == t - s
              IN  IF p = "charging" /\ elapsed_seconds >= config.charge_duration
                  THEN [active |-> a, phase |-> "idle", start |-> t,
                        branch |-> "tick_charged", rerun |-> TRUE]
                  ELSE IF p = "idle" /\ elapsed_seconds >= config.idle_duration
                  THEN [active |-> a, phase |-> "discharging", start |-> t,
                        branch |-> "tick_idled", rerun |-> TRUE]
                  ELSE IF p = "discharging"
                          /\ elapsed_seconds >= config.discharge_duration
                  THEN [active |-> FALSE, phase |-> "idle", start |-> None,
                        branch |-> "tick_complete", rerun |-> TRUE]
                  ELSE Hold(a, p, s, "tick_hold")
         ELSE Hold(a, p, s, "tick_hold")
    ELSE Hold(a, p, s, "tick_inactive")

\* A run of the Workflow Management page in which no button is clicked,
\* followed by the runs its st.rerun() calls cause at the same clock value.
\* The result keeps the branch of the first run.
RECURSIVE WorkflowPageRun(_, _, _, _, _)
WorkflowPageRun(a, p, s, cfg, t) ==
    LET r == PhaseCheck(a, p, s, cfg, t)
    IN  IF r.rerun
        THEN [WorkflowPageRun(r.active, r.phase, r.start, cfg, t)
                 EXCEPT !.branch = r.branch]
        ELSE r

TickOps == {"tick_charged", "tick_idled", "tick_complete", "tick_hold",
            "tick_inactive"}
TransitionOps == {"tick_charged", "tick_idled", "tick_complete"}

\* ------------------------------------------------------------------ Init
Init ==
    /\ workflow_active = FALSE
    /\ current_phase = "idle"
    /\ phase_start_time = None
    /\ workflow_config = {}
    /\ workflow_logs = <<>>
    /\ historical_records = <<>>
    /\ confirm_rendered = FALSE
    /\ now = 0
    /\ op = "init"
    /\ rendered = [fn |-> "none"]

\* --------------------------------------------- Workflow Management page
\* A run with no button clicked (auto-refresh, rerun or any other widget).
Tick ==
    LET r == WorkflowPageRun(workflow_active, current_phase, phase_start_time,
                             workflow_config, now)
    IN  /\ workflow_active' = r.active
        /\ current_phase' = r.phase
        /\ phase_start_time' = r.start
        /\ op' = r.branch
        /\ confirm_rendered' = FALSE
        /\ UNCHANGED <<workflow_config, workflow_logs, historical_records, now,
                   rendered>>

StartNoTimer ==
    /\ ~workflow_active
    /\ \E c \in Durations, i \in Durations, d \in Durations :
          LET cfg == {[charge_duration |-> c, idle_duration |-> i,
                       discharge_duration |-> d]}
              r == WorkflowPageRun(TRUE, "charging", phase_start_time, cfg, now)
          IN  /\ workflow_active' = r.active
              /\ current_phase' = r.phase
              /\ phase_start_time' = r.start
              /\ workflow_config' = cfg
    /\ op' = "start"
    /\ confirm_rendered' = FALSE
    /\ UNCHANGED <<workflow_logs, historical_records, now,
                   rendered>>

StartKeepPhase ==
    /\ ~workflow_active
    /\ \E c \in Durations, i \in Durations, d \in Durations :
          LET cfg == {[charge_duration |-> c, idle_duration |-> i,
                       discharge_duration |-> d]}
              r == WorkflowPageRun(TRUE, current_phase, now, cfg, now)
          IN  /\ workflow_active' = r.active
              /\ current_phase' = r.phase
              /\ phase_start_time' = r.start
              /\ workflow_config' = cfg
    /\ op' = "start"
    /\ confirm_rendered' = FALSE
    /\ UNCHANGED <<workflow_logs, historical_records, now,
                   rendered>>

StartNoConfig ==
    /\ ~workflow_active
    /\ LET r == WorkflowPageRun(TRUE, "charging", now, workflow_config, now)
       IN  /\ workflow_active' = r.active
           /\ current_phase' = r.phase
           /\ phase_start_time' = r.start
    /\ op' = "start"
    /\ confirm_rendered' = FALSE
    /\ UNCHANGED <<workflow_config, workflow_logs, historical_records, now,
                   rendered>>

\* "Start Workflow" (disabled while active), then the rerun it calls.
Start ==
    /\ ~workflow_active
    /\ \E c \in Durations, i \in Durations, d \in Durations :
          LET cfg == {[charge_duration |-> c, idle_duration |-> i,
                       discharge_duration |-> d]}
              r == WorkflowPageRun(TRUE, "charging", now, cfg, now)
          IN  /\ workflow_active' = r.active
              /\ current_phase' = r.phase
              /\ phase_start_time' = r.start
              /\ workflow_config' = cfg
    /\ op' = "start"
    /\ confirm_rendered' = FALSE
    /\ UNCHANGED <<workflow_logs, historical_records, now,
                   rendered>>

PauseClearsTimer ==
    /\ workflow_active
    /\ LET r == WorkflowPageRun(FALSE, current_phase, None,
                                workflow_config, now)
       IN  /\ workflow_active' = r.active
           /\ current_phase' = r.phase
           /\ phase_start_time' = r.start
    /\ op' = "pause"
    /\ confirm_rendered' = FALSE
    /\ UNCHANGED <<workflow_config, workflow_logs, historical_records, now,
                   rendered>>

\* "Pause Workflow" (disabled while inactive), then the rerun it calls.
Pause ==
    /\ workflow_active
    /\ LET r == WorkflowPageRun(FALSE, current_phase, phase_start_time,
                                workflow_config, now)
       IN  /\ workflow_active' = r.active
           /\ current_phase' = r.phase
           /\ phase_start_time' = r.start
    /\ op' = "pause"
    /\ confirm_rendered' = FALSE
    /\ UNCHANGED <<workflow_config, workflow_logs, historical_records, now,
                   rendered>>

\* "Stop Workflow", then the rerun it calls.
Stop ==
    /\ LET r == WorkflowPageRun(FALSE, "idle", None, workflow_config, now)
       IN  /\ workflow_active' = r.active
           /\ current_phase' = r.phase
           /\ phase_start_time' = r.start
    /\ op' = "stop"
    /\ confirm_rendered' = FALSE
    /\ UNCHANGED <<workflow_config, workflow_logs, historical_records, now,
                   rendered>>

\* ----------------------------------------------------- User Controls page
ManualOp(p) ==
    CASE p = "charging" -> "start_charging"
      [] p = "idle" -> "set_idle"
      [] p = "discharging" -> "start_discharging"

ManualOps == {ManualOp(p) : p \in Phases}

SetPhaseKeepTimer(p) ==
    /\ current_phase' = p
    /\ phase_start_time' = phase_start_time
    /\ op' = ManualOp(p)
    /\ confirm_rendered' = FALSE
    /\ UNCHANGED <<workflow_active, workflow_config, workflow_logs,
                   historical_records, now,
                   rendered>>

\* The body shared by the three Manual Phase Control buttons.
SetPhase(p) ==
    /\ current_phase' = p
    /\ phase_start_time' = now
    /\ op' = ManualOp(p)
    /\ confirm_rendered' = FALSE
    /\ UNCHANGED <<workflow_active, workflow_config, workflow_logs,
                   historical_records, now,
                   rendered>>

StartCharging == SetPhase("charging")
SetIdle == SetPhase("idle")
StartDischarging == SetPhase("discharging")

EmergencyStop ==
    /\ workflow_active' = FALSE
    /\ current_phase' = "idle"
    /\ op' = "emergency_stop"
    /\ confirm_rendered' = FALSE
    /\ UNCHANGED <<phase_start_time, workflow_config, workflow_logs,
                   historical_records, now,
                   rendered>>

ResetAllDropsRecords ==
    /\ workflow_active' = FALSE
    /\ current_phase' = "idle"
    /\ workflow_logs' = <<>>
    /\ historical_records' = <<>>
    /\ op' = "reset_all"
    /\ confirm_rendered' = FALSE
    /\ UNCHANGED <<phase_start_time, workflow_config, now,
                   rendered>>

ResetAllClearsConfig ==
    /\ workflow_active' = FALSE
    /\ current_phase' = "idle"
    /\ workflow_logs' = <<>>
    /\ workflow_config' = {}
    /\ op' = "reset_all"
    /\ confirm_rendered' = FALSE
    /\ UNCHANGED <<phase_start_time, historical_records, now, rendered>>

ResetAll ==
    /\ workflow_active' = FALSE
    /\ current_phase' = "idle"
    /\ workflow_logs' = <<>>
    /\ op' = "reset_all"
    /\ confirm_rendered' = FALSE
    /\ UNCHANGED <<phase_start_time, workflow_config, historical_records, now,
                   rendered>>

\* ------------------------------------------------------ Data Logging page
\* The auto-save condition on the workflow log.
ShouldAutoLog(logs, t) ==
    \/ Len(logs) = 0
    \/ TimedeltaSeconds(t - FromIsoFormat(logs[Len(logs)].timestamp))
          > DebounceSeconds

AutoLogPrepend ==
    /\ IF workflow_active /\ ShouldAutoLog(workflow_logs, now)
       THEN /\ workflow_logs' = Append(workflow_logs,
                   [timestamp |-> IsoFormat(now), phase |-> current_phase])
            /\ historical_records' =
                   <<[Timestamp |-> IsoFormat(now), Phase |-> current_phase]>>
                      \o historical_records
            /\ op' = "autolog"
       ELSE /\ UNCHANGED <<workflow_logs, historical_records>>
            /\ op' = "autolog_skip"
    /\ confirm_rendered' = FALSE
    /\ UNCHANGED <<workflow_active, current_phase, phase_start_time,
                   workflow_config, now, rendered>>

AutoLogOnlyLog ==
    /\ IF workflow_active /\ ShouldAutoLog(workflow_logs, now)
       THEN /\ workflow_logs' = Append(workflow_logs,
                   [timestamp |-> IsoFormat(now), phase |-> current_phase])
            /\ UNCHANGED historical_records
            /\ op' = "autolog"
       ELSE /\ UNCHANGED <<workflow_logs, historical_records>>
            /\ op' = "autolog_skip"
    /\ confirm_rendered' = FALSE
    /\ UNCHANGED <<workflow_active, current_phase, phase_start_time,
                   workflow_config, now, rendered>>

AutoLogWhenInactive ==
    /\ IF ShouldAutoLog(workflow_logs, now)
       THEN /\ workflow_logs' = Append(workflow_logs,
                   [timestamp |-> IsoFormat(now), phase |-> current_phase])
            /\ historical_records' = Append(historical_records,
                   [Timestamp |-> IsoFormat(now), Phase |-> current_phase])
            /\ op' = "autolog"
       ELSE /\ UNCHANGED <<workflow_logs, historical_records>>
            /\ op' = "autolog_skip"
    /\ confirm_rendered' = FALSE
    /\ UNCHANGED <<workflow_active, current_phase, phase_start_time,
                   workflow_config, now, rendered>>

\* A run of the Data Logging page: "Auto-log workflow data".  The per-cell
\* columns of record_entry are left out here: no operation of this
\* specification reads them (SampleRecord below carries them).
AutoLog ==
    /\ IF workflow_active /\ ShouldAutoLog(workflow_logs, now)
       THEN /\ workflow_logs' = Append(workflow_logs,
                   [timestamp |-> IsoFormat(now), phase |-> current_phase])
            /\ historical_records' = Append(historical_records,
                   [Timestamp |-> IsoFormat(now), Phase |-> current_phase])
            /\ op' = "autolog"
       ELSE /\ UNCHANGED <<workflow_logs, historical_records>>
            /\ op' = "autolog_skip"
    /\ confirm_rendered' = FALSE
    /\ UNCHANGED <<workflow_active, current_phase, phase_start_time,
                   workflow_config, now,
                   rendered>>

\* ---------------------------------------------- Records & Comparison page
\* A run of the page caused by a click on `clicked` ("none" for any other
\* cause).  st.button returns True only in the run its own click caused, and
\* the confirm button is created only inside the outer button's branch.
RecordsPageRun(clicked) ==
    LET clear_all == (clicked = "clear_all")
        confirm == clear_all /\ (clicked = "confirm_clear")
    IN  /\ IF confirm
           THEN /\ historical_records' = <<>>
                /\ workflow_logs' = <<>>
           ELSE UNCHANGED <<historical_records, workflow_logs>>
        /\ confirm_rendered' = clear_all
        /\ op' = clicked
        /\ UNCHANGED <<workflow_active, current_phase, phase_start_time,
                       workflow_config, now,
                   rendered>>

ClickClearAll == RecordsPageRun("clear_all")

ClickConfirmClear == confirm_rendered /\ RecordsPageRun("confirm_clear")

\* ------------------------------------- Records & Comparison page: display
Min(a, b) == IF a <= b THEN a ELSE b

\* str.lower() on the phase names the page compares.
Lower(str) ==
    CASE str = "Charging" -> "charging"
      [] str = "Idle" -> "idle"
      [] str = "Discharging" -> "discharging"
      [] str = "All" -> "all"
      [] OTHER -> str

PhaseFilters == {"All", "Charging", "Idle", "Discharging"}
SortOrders == {"Newest First", "Oldest First"}

FilterByPhaseCaseSensitive(records, phase_filter) ==
    IF phase_filter # "All"
    THEN SelectSeq(records, LAMBDA r : r.Phase = phase_filter)
    ELSE records

\* if phase_filter != "All": keep r with r["Phase"].lower() == filter.lower()
FilterByPhase(records, phase_filter) ==
    IF phase_filter # "All"
    THEN SelectSeq(records, LAMBDA r : Lower(r.Phase) = Lower(phase_filter))
    ELSE records

\* sorted(..., key=Timestamp, reverse=reverse) is stable: x goes behind
\* every element that does not have to come after it.
RECURSIVE InsertSorted(_, _, _)
InsertSorted(x, sorted, reverse) ==
    IF sorted = <<>>
    THEN <<x>>
    ELSE LET e == Head(sorted)
             stays == IF reverse
                      THEN TimestampLeq(x.Timestamp, e.Timestamp)
                      ELSE TimestampLeq(e.Timestamp, x.Timestamp)
         IN  IF stays
             THEN <<e>> \o InsertSorted(x, Tail(sorted), reverse)
             ELSE <<x>> \o sorted

RECURSIVE SortedByTimestamp(_, _)
SortedByTimestamp(records, reverse) ==
    IF records = <<>>
    THEN <<>>
    ELSE InsertSorted(records[Len(records)],
                      SortedByTimestamp(SubSeq(records, 1, Len(records) - 1),
                                        reverse),
                      reverse)

\* displayed_records: filter, sort, then filtered_records[:records_limit].
\* Nothing is displayed while the store is empty.
DisplayedRecords(records, phase_filter, records_limit, sort_order) ==
    IF records = <<>>
    THEN <<>>
    ELSE LET filtered == FilterByPhase(records, phase_filter)
             sorted == SortedByTimestamp(filtered, sort_order = "Newest First")
         IN  SubSeq(sorted, 1, Min(records_limit, Len(sorted)))

\* The default of the "Show Last N Records" input.
DefaultLimit(records) == Min(50, Len(records))

\* A run of the page with the filter widgets set: the records table.
QueryRun ==
    /\ historical_records # <<>>
    /\ \E phase_filter \in PhaseFilters,
          records_limit \in 1..Len(historical_records),
          sort_order \in SortOrders :
          rendered' = [fn |-> "query",
                       phase_filter |-> phase_filter,
                       records_limit |-> records_limit,
                       sort_order |-> sort_order,
                       out |-> DisplayedRecords(historical_records,
                                  phase_filter, records_limit, sort_order)]
    /\ op' = "view_records"
    /\ confirm_rendered' = FALSE
    /\ UNCHANGED <<workflow_active, current_phase, phase_start_time,
                   workflow_config, workflow_logs, historical_records, now>>

\* --------------------------------- Records & Comparison page: comparison
\* key = f"{cell}_{param}"
Key(cell, param) == cell \o "_" \o param

\* The compared cells, in the order of cell_options, and two of the
\* available parameters.
CellOptions == <<"Cell_1", "Cell_2">>
AvailableParams == {"Voltage (V)", "Current (A)"}

\* selected_cells: the ticked cells in the order of cell_options.
CellSelections == {<<"Cell_1">>, <<"Cell_2">>, <<"Cell_1", "Cell_2">>}

\* selected_params: the chosen parameters in the order they were chosen.
ParamSelections ==
    {<<"Voltage (V)">>, <<"Current (A)">>,
     <<"Voltage (V)", "Current (A)">>, <<"Current (A)", "Voltage (V)">>}

\* latest_records = historical_records[-min(10, len(historical_records)):]
LatestRecords(records) ==
    SubSeq(records, Len(records) - Min(WindowSize, Len(records)) + 1,
           Len(records))

\* values: record[key] of every record of the window that has the key.
ValuesOf(window, key) ==
    LET having == SelectSeq(window, LAMBDA r : key \in DOMAIN r)
    IN  [i \in 1..Len(having) |-> having[i][key]]

RECURSIVE SumSeq(_)
SumSeq(values) ==
    IF values = <<>> THEN 0 ELSE Head(values) + SumSeq(Tail(values))

MinOf(values) ==
    CHOOSE x \in {values[i] : i \in 1..Len(values)} :
        \A i \in 1..Len(values) : x <= values[i]

MaxOf(values) ==
    CHOOSE x \in {values[i] : i \in 1..Len(values)} :
        \A i \in 1..Len(values) : x >= values[i]

\* round(a / n, 3) on thousandths: the nearest integer, halves to even.
RoundDiv(a, n) ==
    LET q == a \div n
        r == a % n
    IN  IF 2 * r < n THEN q
        ELSE IF 2 * r > n THEN q + 1
        ELSE IF q % 2 = 0 THEN q ELSE q + 1

\* round(np.std(values), 3): the population standard deviation, in
\* thousandths.  It is sqrt(d) / n with d = n * sum(v^2) - sum(v)^2.
StdDev(values) ==
    LET n == Len(values)
        d == n * SumSeq([i \in 1..n |-> values[i] * values[i]])
                - SumSeq(values) * SumSeq(values)
    IN  CHOOSE r \in 0..(MaxOf(values) - MinOf(values)) :
           /\ (2 * r + 1) * (2 * r + 1) * n * n > 4 * d
           /\ r > 0 => (2 * r - 1) * (2 * r - 1) * n * n <= 4 * d

SummaryRowMaxIsLatest(cell, param, values) ==
    [Cell |-> cell,
     Parameter |-> param,
     Average |-> RoundDiv(SumSeq(values), Len(values)),
     Min |-> MinOf(values),
     Max |-> values[Len(values)],
     Latest |-> values[Len(values)],
     StdDev |-> StdDev(values)]

SummaryRowLatestIsFirst(cell, param, values) ==
    [Cell |-> cell,
     Parameter |-> param,
     Average |-> RoundDiv(SumSeq(values), Len(values)),
     Min |-> MinOf(values),
     Max |-> MaxOf(values),
     Latest |-> values[1],
     StdDev |-> StdDev(values)]

\* One entry of summary_data.
SummaryRow(cell, param, values) ==
    [Cell |-> cell,
     Parameter |-> param,
     Average |-> RoundDiv(SumSeq(values), Len(values)),
     Min |-> MinOf(values),
     Max |-> MaxOf(values),
     Latest |-> values[Len(values)],
     StdDev |-> StdDev(values)]

\* The rows of one cell: one per selected parameter that has values.
RECURSIVE RowsOfCell(_, _, _)
RowsOfCell(window, cell, params) ==
    IF params = <<>>
    THEN <<>>
    ELSE LET values == ValuesOf(window, Key(cell, Head(params)))
             rest == RowsOfCell(window, cell, Tail(params))
         IN  IF values # <<>>
             THEN <<SummaryRow(cell, Head(params), values)>> \o rest
             ELSE rest

\* summary_data: for cell in selected_cells: for param in selected_params.
RECURSIVE SummaryData(_, _, _)
SummaryData(window, cells, params) ==
    IF cells = <<>>
    THEN <<>>
    ELSE RowsOfCell(window, Head(cells), params)
            \o SummaryData(window, Tail(cells), params)

\* A run of the page with cells and parameters selected: the summary table.
SummaryRun ==
    /\ historical_records # <<>>
    /\ \E selected_cells \in CellSelections,
          selected_params \in ParamSelections :
          rendered' = [fn |-> "summary",
                       selected_cells |-> selected_cells,
                       selected_params |-> selected_params,
                       out |-> SummaryData(LatestRecords(historical_records),
                                           selected_cells, selected_params)]
    /\ op' = "view_summary"
    /\ confirm_rendered' = FALSE
    /\ UNCHANGED <<workflow_active, current_phase, phase_start_time,
                   workflow_config, workflow_logs, historical_records, now>>

\* ------------------------------------------------- simulate_cell_data
\* Quantities are integers: voltage in 1e-5 V, returned voltage in mV,
\* current in 0.01 A, temperature in 0.1 degC, state of charge and health
\* before rounding in 0.01 %, returned in 0.1 %, capacity in 0.01 Wh.
CellTypes == {"lfp", "nmc"}
WorkingConditions == {"Normal", "Degraded", "Critical", "Faulty"}
Draws == 0..MaxDraw

Max(a, b) == IF a >= b THEN a ELSE b

\* random.uniform(lo, hi) for the draw d.
Uniform(lo, hi, d) == lo + ((hi - lo) * d) \div MaxDraw

\* base_voltage
BaseVoltage(cell_type, d) ==
    IF cell_type = "lfp"
    THEN Uniform(300000, 360000, d)
    ELSE Uniform(330000, 420000, d)

\* 4.2 if cell_type == "nmc" else 3.6
Ceiling(cell_type) == IF cell_type = "nmc" THEN 420000 ELSE 360000

\* current of the phase: round(random.uniform(..), 2), drawn in 0.001 A.
PhaseCurrent(phase, d) ==
    CASE phase = "charging" -> RoundDiv(Uniform(1000, 5000, d), 10)
      [] phase = "discharging" -> RoundDiv(Uniform(0 - 5000, 0 - 1000, d), 10)
      [] OTHER -> RoundDiv(Uniform(0 - 500, 500, d), 10)

\* voltage of the phase
PhaseVoltage(cell_type, phase, base_voltage) ==
    CASE phase = "charging" ->
            Min((base_voltage * 11) \div 10, Ceiling(cell_type))
      [] phase = "discharging" -> (base_voltage * 9) \div 10
      [] OTHER -> base_voltage

\* temp of the phase: round(random.uniform(..), 1), drawn in 0.01 degC.
PhaseTemp(phase, d) ==
    CASE phase = "charging" -> RoundDiv(Uniform(3000, 5000, d), 10)
      [] phase = "discharging" -> RoundDiv(Uniform(2800, 4500, d), 10)
      [] OTHER -> RoundDiv(Uniform(2500, 3500, d), 10)

\* soc_change of the phase
PhaseSocChange(phase) ==
    CASE phase = "charging" -> 200
      [] phase = "discharging" -> 0 - 150
      [] OTHER -> 0

ConditionVoltage(working_condition, voltage) ==
    CASE working_condition = "Degraded" -> (voltage * 95) \div 100
      [] working_condition = "Critical" -> (voltage * 85) \div 100
      [] working_condition = "Faulty" -> (voltage * 7) \div 10
      [] OTHER -> voltage

ConditionTemp(working_condition, temp) ==
    CASE working_condition = "Degraded" -> temp + 50
      [] working_condition = "Critical" -> temp + 100
      [] working_condition = "Faulty" -> temp + 150
      [] OTHER -> temp

ConditionCurrentKept(working_condition, current) == current

ConditionCurrent(working_condition, current) ==
    IF working_condition = "Faulty" THEN 0 ELSE current

ConditionSocChange(working_condition, soc_change) ==
    CASE working_condition = "Degraded" -> (soc_change * 8) \div 10
      [] working_condition = "Critical" -> (soc_change * 5) \div 10
      [] working_condition = "Faulty" -> 0
      [] OTHER -> soc_change

SocUnclamped(base_soc, soc_change) == base_soc + soc_change

\* soc = max(0, min(100, base_soc + soc_change))
Soc(base_soc, soc_change) == Max(0, Min(10000, base_soc + soc_change))

OvervoltageAtCeiling(cell_type, voltage) == voltage >= Ceiling(cell_type)

\* voltage > (4.2 if cell_type == "nmc" else 3.6)
Overvoltage(cell_type, voltage) == voltage > Ceiling(cell_type)

\* alerts
Alerts(cell_type, working_condition, voltage, temp) ==
    (IF temp > 450 THEN <<"Overheat">> ELSE <<>>)
       \o (IF voltage < 250000 THEN <<"Undervoltage">> ELSE <<>>)
       \o (IF Overvoltage(cell_type, voltage)
           THEN <<"Overvoltage">> ELSE <<>>)
       \o (IF working_condition \in {"Critical", "Faulty"}
           THEN <<"Cell " \o working_condition>> ELSE <<>>)

\* "; ".join(alerts) if alerts else "None"
RECURSIVE Join(_)
Join(alerts) ==
    IF alerts = <<>> THEN "None"
    ELSE IF Len(alerts) = 1 THEN alerts[1]
    ELSE alerts[1] \o "; " \o Join(Tail(alerts))

\* phase.capitalize()
Capitalize(phase) ==
    CASE phase = "charging" -> "Charging"
      [] phase = "discharging" -> "Discharging"
      [] phase = "idle" -> "Idle"
      [] OTHER -> phase

Abs(x) == IF x < 0 THEN 0 - x ELSE x

\* The reading of one cell; draws holds the five uniform draws in the order
\* the code makes them: base voltage, current, temperature, base SoC, SoH.
simulate_cell_data(cell_type, working_condition, phase, draws) ==
    LET base_voltage == BaseVoltage(cell_type, draws[1])
        current == ConditionCurrent(working_condition,
                                    PhaseCurrent(phase, draws[2]))
        voltage == ConditionVoltage(working_condition,
                      PhaseVoltage(cell_type, phase, base_voltage))
        temp == ConditionTemp(working_condition, PhaseTemp(phase, draws[3]))
        soc_change == ConditionSocChange(working_condition,
                                         PhaseSocChange(phase))
        base_soc == Uniform(5000, 10000, draws[4])
        soc == Soc(base_soc, soc_change)
        soh == RoundDiv(Uniform(8500, 10000, draws[5]), 10)
        alerts == Alerts(cell_type, working_condition, voltage, temp)
    IN  [Voltage |-> RoundDiv(voltage, 100),
         Current |-> current,
         Temperature |-> temp,
         Capacity |-> RoundDiv(voltage * Abs(current), 100000),
         SoC |-> RoundDiv(soc, 10),
         SoH |-> soh,
         Working_Condition |-> working_condition,
         Phase |-> Capitalize(phase),
         Alert |-> Join(alerts),
         alerts |-> alerts]

\* The arguments and the random draws of one call.
GenerateInputs ==
    [fn : {"inputs"}, cell_type : CellTypes,
     working_condition : WorkingConditions, phase : Phases,
     draws : [1..5 -> Draws]]

\* The call: one reading is generated from the arguments and draws held.
Generate ==
    /\ rendered.fn = "inputs"
    /\ rendered' = [rendered EXCEPT !.fn = "generate"]
                      @@ [out |-> simulate_cell_data(rendered.cell_type,
                                     rendered.working_condition,
                                     rendered.phase, rendered.draws)]
    /\ op' = "generate"
    /\ confirm_rendered' = FALSE
    /\ UNCHANGED <<workflow_active, current_phase, phase_start_time,
                   workflow_config, workflow_logs, historical_records, now>>

\* ------------------------------------------------ sample record lists
SeqsUpTo(S, n) == UNION {[1..k -> S] : k \in 0..n}

SampleTimes == 0..MaxSampleTime

\* The voltages of the worked example: 3.30, 3.35, 3.40 V, in thousandths.
SampleValues == {3300, 3350, 3400}

NonDecreasing(ts) == \A i \in 1..(Len(ts) - 1) : ts[i] <= ts[i + 1]

\* A stored record: record_entry with the columns of the compared cells.
\* v is the voltage of Cell_1 in thousandths of a volt; Cell_2 mirrors it.
SampleRecord(t, p, v) ==
    ("Timestamp" :> IsoFormat(t)) @@ ("Phase" :> p)
       @@ (Key("Cell_1", "Voltage (V)") :> v)
       @@ (Key("Cell_1", "Current (A)") :> 1500)
       @@ (Key("Cell_2", "Voltage (V)") :> 6700 - v)
       @@ (Key("Cell_2", "Current (A)") :> (0 - 1500))

\* Record lists as the append path leaves them: non-decreasing timestamps,
\* any phases, and pairwise different column values.
QuerySamples ==
    {[i \in 1..Len(ts) |-> SampleRecord(ts[i], ps[i], 3300 + 10 * i)] :
        <<ts, ps>> \in
           {x \in SeqsUpTo(SampleTimes, MaxSample)
                    \X SeqsUpTo(Phases, MaxSample) :
               Len(x[1]) = Len(x[2]) /\ NonDecreasing(x[1])}}

\* The state after Reset All and Stop Workflow with the given records stored.
StoreHolds(records) ==
    /\ workflow_active = FALSE
    /\ current_phase = "idle"
    /\ phase_start_time = None
    /\ workflow_config = {[charge_duration |-> MinDuration,
                           idle_duration |-> MinDuration,
                           discharge_duration |-> MinDuration]}
    /\ workflow_logs = <<>>
    /\ historical_records = records
    /\ confirm_rendered = FALSE
    /\ now = MaxSampleTime
    /\ op = "init"
    /\ rendered = [fn |-> "none"]

InitQuery == \E records \in QuerySamples : StoreHolds(records)

SpecQuery == InitQuery /\ [][QueryRun]_vars

\* Older records in front of a sample, all taken at time 0.
Padding(k) == [i \in 1..k |-> SampleRecord(0, "charging", 3400)]

\* Record lists for the comparison: non-decreasing timestamps, any of the
\* sample voltages, alone or behind a full window of older records.
SummarySamples ==
    {Padding(k) \o [i \in 1..Len(ts) |-> SampleRecord(ts[i], "charging", vs[i])] :
        <<k, ts, vs>> \in
           {x \in {0, WindowSize} \X SeqsUpTo(SampleTimes, MaxSample)
                    \X SeqsUpTo(SampleValues, MaxSample) :
               Len(x[2]) = Len(x[3]) /\ NonDecreasing(x[2])}}

InitSummary == \E records \in SummarySamples : StoreHolds(records)

SpecSummary == InitSummary /\ [][SummaryRun]_vars

\* The state before a call of simulate_cell_data with given arguments.
InitGenerate ==
    /\ workflow_active = FALSE
    /\ current_phase = "idle"
    /\ phase_start_time = None
    /\ workflow_config = {}
    /\ workflow_logs = <<>>
    /\ historical_records = <<>>
    /\ confirm_rendered = FALSE
    /\ now = 0
    /\ op = "init"
    /\ rendered \in GenerateInputs

SpecGenerate == InitGenerate /\ [][Generate]_vars

\* ----------------------------------------------------------------- clock
Advance ==
    /\ now < MaxTime
    /\ now' = now + 1
    /\ op' = "advance"
    /\ UNCHANGED <<workflow_active, current_phase, phase_start_time,
                   workflow_config, workflow_logs, historical_records,
                   confirm_rendered,
                   rendered>>

\* The store holds fewer than cap records (keeps the model finite).
BelowCap(cap) == Len(historical_records) < cap

Next ==
    \/ Tick
    \/ Start
    \/ Pause
    \/ Stop
    \/ StartCharging
    \/ SetIdle
    \/ StartDischarging
    \/ EmergencyStop
    \/ ResetAll
    \/ (BelowCap(MaxLog) /\ AutoLog)
    \/ ClickClearAll
    \/ ClickConfirmClear
    \/ Advance

Spec == Init /\ [][Next]_vars

\* The auto-logger and the record store with a larger cap: the workflow is
\* started, runs through its phases, is reset, and records are appended and
\* cleared.  The operator's other buttons, which write neither list, are
\* left to Spec.
StoreNext ==
    \/ Start
    \/ Tick
    \/ ResetAll
    \/ (BelowCap(MaxStore) /\ AutoLog)
    \/ ClickClearAll
    \/ ClickConfirmClear
    \/ Advance

SpecStore == Init /\ [][StoreNext]_vars

\* The scenario "start once, then only ticks": the workflow is started from
\* the initial state and afterwards only the clock and the page refresh act.
ScenarioStart == workflow_config = {} /\ Start

ScenarioNext ==
    \/ ScenarioStart
    \/ Tick
    \/ Advance

SpecScenario == Init /\ [][ScenarioNext]_vars

\* The workflow engine and the auto-logger without the Records & Comparison
\* page, whose buttons write neither the workflow state nor, as C13 shows,
\* the lists.
WorkflowNext ==
    \/ Tick
    \/ Start
    \/ Pause
    \/ Stop
    \/ StartCharging
    \/ SetIdle
    \/ StartDischarging
    \/ EmergencyStop
    \/ ResetAll
    \/ (BelowCap(MaxLog) /\ AutoLog)
    \/ Advance

SpecWorkflow == Init /\ [][WorkflowNext]_vars

\* The latest clock value that leaves room for three full phases.
LatestStart == MaxTime - 3 * MaxDur

\* A workflow left running unattended: it is active in some phase that
\* began at time s with some stored durations, the clock already shows any
\* later time that still leaves room for three full phases.
RunningSince(s) ==
    /\ workflow_active = TRUE
    /\ current_phase \in Phases
    /\ phase_start_time = s
    /\ \E c \in Durations, i \in Durations, d \in Durations :
          workflow_config = {[charge_duration |-> c, idle_duration |-> i,
                              discharge_duration |-> d]}
    /\ workflow_logs = <<>>
    /\ historical_records = <<>>
    /\ confirm_rendered = FALSE
    /\ now \in s..LatestStart
    /\ op = "init"
    /\ rendered = [fn |-> "none"]

\* The phase began at time 0; from here on only the clock and the runs of
\* the Workflow Management page act.
InitRunning == RunningSince(0)

RunNext ==
    \/ Tick
    \/ Advance

SpecRun == InitRunning /\ [][RunNext]_vars

\* The same with the scheduling the program has: while the workflow is
\* active every run of the script ends in time.sleep(1) and st.rerun()
\* (lines 758-761), so the page is evaluated once per second: the clock does
\* not advance twice without a run of the page in between, and both the
\* clock and the page keep going.
RefreshAdvance == op # "advance" /\ Advance

RefreshNext ==
    \/ Tick
    \/ RefreshAdvance

InitRefresh == \E s \in 0..LatestStart : RunningSince(s)

SpecRefresh ==
    InitRefresh /\ [][RefreshNext]_vars
       /\ WF_vars(Tick) /\ WF_vars(RefreshAdvance)

\* ---------------------------------------------------------------- claims
IsPrefix(s, t) == Len(s) <= Len(t) /\ SubSeq(t, 1, Len(s)) = s

StoredConfig == CHOOSE c \in workflow_config : TRUE

\* The duration of the current phase in the stored configuration.
PhaseDuration ==
    CASE current_phase = "charging" -> StoredConfig.charge_duration
      [] current_phase = "idle" -> StoredConfig.idle_duration
      [] current_phase = "discharging" -> StoredConfig.discharge_duration

\* C1: while the workflow is active a tick follows the transition table:
\* charging moves to idle, idle to discharging, discharging to inactive+idle
\* once the elapsed time reaches the phase's duration, and a tick before
\* that leaves the phase and the active flag unchanged.
C1_TickFollowsTable ==
    [][(op' \in TickOps /\ workflow_active) =>
          LET elapsed == now - phase_start_time
          IN  /\ (current_phase = "charging"
                     /\ elapsed >= StoredConfig.charge_duration)
                   => (current_phase' = "idle" /\ workflow_active')
              /\ (current_phase = "idle"
                     /\ elapsed >= StoredConfig.idle_duration)
                   => (current_phase' = "discharging" /\ workflow_active')
              /\ (current_phase = "discharging"
                     /\ elapsed >= StoredConfig.discharge_duration)
                   => (~workflow_active' /\ current_phase' = "idle")
              /\ (elapsed < PhaseDuration)
                   => UNCHANGED <<current_phase, workflow_active>>]_vars

\* A tick has just completed the workflow out of the discharging phase.
C1_Witness ==
    op = "tick_complete" /\ ~workflow_active /\ current_phase = "idle"

\* C2 as stated: the phase start time is null iff the workflow is inactive.
C2_Original == (phase_start_time = None) <=> ~workflow_active

\* C2 (amended): whenever the phase start time is null the workflow is
\* inactive, i.e. an active workflow always has a phase start time.
C2_NullTimerOnlyWhenInactive == (phase_start_time = None) => ~workflow_active

\* Stop has cleared the timer of a workflow that had been started.
C2_Witness ==
    op = "stop" /\ phase_start_time = None /\ workflow_config # {}

\* C3 as stated: every transition performed by a tick resets the phase start
\* time to the current time and appends exactly one entry to the workflow log.
C3_Original ==
    [][op' \in TransitionOps =>
          /\ phase_start_time' = now'
          /\ Len(workflow_logs') = Len(workflow_logs) + 1]_vars

\* C4 as stated: start followed only by ticks ends, after the three phases,
\* with active=false, phase=idle and exactly three workflow-log entries.
C4_Original ==
    op = "tick_complete" =>
        /\ ~workflow_active
        /\ current_phase = "idle"
        /\ Len(workflow_logs) = 3

\* C5: start sets active=true, phase=charging and the phase start time to
\* the current time, whatever phase and timer the workflow was left in.
C5_StartResets ==
    [][op' = "start" =>
          /\ workflow_active'
          /\ current_phase' = "charging"
          /\ phase_start_time' = now']_vars

\* A start issued later than time 0 has taken effect.
C5_Witness ==
    /\ op = "start"
    /\ workflow_active
    /\ current_phase = "charging"
    /\ phase_start_time = now
    /\ now > 0

\* C6 as stated: Stop Workflow, Emergency Stop and Reset All each result in
\* phase=idle, active=false and a null phase start time.
C6_Original ==
    [][op' \in {"stop", "emergency_stop", "reset_all"} =>
          /\ current_phase' = "idle"
          /\ ~workflow_active'
          /\ phase_start_time' = None]_vars

\* C7: pause sets active=false and leaves the phase, the phase start time,
\* the stored durations, the workflow log and the records unchanged.
C7_PauseFrame ==
    [][op' = "pause" =>
          /\ ~workflow_active'
          /\ UNCHANGED <<current_phase, phase_start_time, workflow_config,
                         workflow_logs, historical_records>>]_vars

\* A workflow paused in the discharging phase keeps its phase and timer.
C7_Witness ==
    /\ op = "pause"
    /\ ~workflow_active
    /\ current_phase = "discharging"
    /\ phase_start_time # None

\* C8: a manual override to phase p sets the phase to p and the phase start
\* time to the current time and leaves the active flag, the stored durations
\* and both logs unchanged.
C8_ManualOverride ==
    [][\A p \in Phases :
          op' = ManualOp(p) =>
             /\ current_phase' = p
             /\ phase_start_time' = now'
             /\ UNCHANGED <<workflow_active, workflow_config, workflow_logs,
                            historical_records>>]_vars

\* An override to discharging on an inactive workflow, after the clock moved.
C8_Witness ==
    /\ op = "start_discharging"
    /\ ~workflow_active
    /\ current_phase = "discharging"
    /\ phase_start_time = now
    /\ now > 0

\* C9: while the workflow is inactive a tick changes neither the phase, nor
\* the phase start time, nor the active flag.
C9_InactiveTickFrame ==
    [][(op' \in TickOps /\ ~workflow_active) =>
          UNCHANGED <<current_phase, phase_start_time, workflow_active>>]_vars

\* A tick on a paused workflow whose phase duration has long elapsed.
C9_Witness ==
    /\ op = "tick_inactive"
    /\ ~workflow_active
    /\ phase_start_time # None
    /\ workflow_config # {}
    /\ now - phase_start_time >= PhaseDuration

C11_TimestampsNonDecreasing ==
    \A i \in 1..(Len(historical_records) - 1) :
        TimestampLeq(historical_records[i].Timestamp,
                     historical_records[i + 1].Timestamp)

\* Two records are stored and the second was appended later than the first.
C11_Witness ==
    /\ Len(historical_records) >= 2
    /\ historical_records[1].Timestamp # historical_records[2].Timestamp

LastRecordTime == FromIsoFormat(historical_records[Len(historical_records)].Timestamp)

\* C15 as stated: a snapshot is appended only if the record store is empty
\* or at least the debounce interval has elapsed since the last record was
\* appended, so consecutive records are at least that interval apart.
C15_Original ==
    [][op' = "autolog" =>
          \/ historical_records = <<>>
          \/ now - LastRecordTime >= DebounceSeconds]_vars

\* Position of a record in the store (records of a sample are all different).
Pos(records, r) == CHOOSE i \in 1..Len(records) : records[i] = r

Matches(r, phase_filter) ==
    phase_filter = "All" \/ Lower(r.Phase) = Lower(phase_filter)

\* r comes before q in the requested order, ties in append order.
ComesBefore(records, r, q, sort_order) ==
    IF r.Timestamp = q.Timestamp
    THEN Pos(records, r) < Pos(records, q)
    ELSE IF sort_order = "Newest First"
         THEN TimestampLeq(q.Timestamp, r.Timestamp)
         ELSE TimestampLeq(r.Timestamp, q.Timestamp)

\* C12: a query returns the records whose phase equals the requested phase
\* ignoring case (all records for "All"), ordered by timestamp in the
\* requested order with equal timestamps in append order, cut to the first
\* `limit` entries: every record left out comes after every record shown.
C12_QueryResult ==
    rendered.fn = "query" =>
        LET out == rendered.out
            f == rendered.phase_filter
            matching == {i \in 1..Len(historical_records) :
                            Matches(historical_records[i], f)}
            shown == {out[i] : i \in 1..Len(out)}
        IN  /\ Len(out) = Min(rendered.records_limit, Cardinality(matching))
            /\ Cardinality(shown) = Len(out)
            /\ \A r \in shown :
                  \E i \in matching : historical_records[i] = r
            /\ \A i \in 1..(Len(out) - 1) :
                  ComesBefore(historical_records, out[i], out[i + 1],
                              rendered.sort_order)
            /\ \A i \in matching :
                  historical_records[i] \notin shown =>
                     \A r \in shown :
                        ComesBefore(historical_records, r,
                                    historical_records[i], rendered.sort_order)

\* Newest First with a phase filter and a limit that cuts off a matching
\* record, on a store holding records of equal timestamp.
C12_Witness ==
    /\ rendered.fn = "query"
    /\ rendered.sort_order = "Newest First"
    /\ rendered.phase_filter = "Charging"
    /\ Len(rendered.out) = 2
    /\ rendered.records_limit = 2
    /\ rendered.out[1].Timestamp = rendered.out[2].Timestamp
    /\ Len(historical_records) = 3
    /\ \A i \in 1..3 : historical_records[i].Phase = "charging"

\* C13 as stated: the confirmed clear empties both the historical records
\* and the workflow log.
C13_Original ==
    [][op' = "confirm_clear" =>
          historical_records' = <<>> /\ workflow_logs' = <<>>]_vars

\* C14 as stated: after the clear a query with no filter returns the empty
\* sequence (and clearing an empty store changes nothing).
C14_Original ==
    op = "confirm_clear" =>
        DisplayedRecords(historical_records, "All",
                         DefaultLimit(historical_records),
                         "Newest First") = <<>>

\* The window the summary is computed from.
Window == LatestRecords(historical_records)

\* The index of the row of the i-th selected cell and j-th selected parameter
\* when every selected pair has a row.
RowIndex(i, j) == (i - 1) * Len(rendered.selected_params) + j

\* C16: for every selected (cell, parameter) pair the summary's `latest` is
\* the value of a record with the greatest timestamp of the window.
C16_LatestIsNewest ==
    rendered.fn = "summary" =>
        \A k \in 1..Len(rendered.out) :
            LET row == rendered.out[k]
                key == Key(row.Cell, row.Parameter)
            IN  \E i \in 1..Len(Window) :
                   /\ key \in DOMAIN Window[i]
                   /\ row.Latest = Window[i][key]
                   /\ \A j \in 1..Len(Window) :
                         TimestampLeq(Window[j].Timestamp,
                                      Window[i].Timestamp)

\* A summary over records of different times and voltages whose newest
\* record does not hold the largest voltage.
C16_Witness ==
    /\ rendered.fn = "summary"
    /\ Len(historical_records) = 3
    /\ historical_records[1].Timestamp # historical_records[3].Timestamp
    /\ Len(rendered.out) >= 1
    /\ rendered.out[1].Cell = "Cell_1"
    /\ rendered.out[1].Parameter = "Voltage (V)"
    /\ rendered.out[1].Latest = 3300
    /\ rendered.out[1].Max = 3400

\* C17: the summary has exactly one row per selected (cell, parameter) pair
\* with a value in the window, in selection order, whose average, min and
\* max are the mean (rounded to thousandths), the smallest and the largest
\* of the pair's values; a pair without a value has no row.
C17_SummaryRows ==
    rendered.fn = "summary" =>
        LET cells == rendered.selected_cells
            params == rendered.selected_params
            pairs == {<<i, j>> \in (1..Len(cells)) \X (1..Len(params)) :
                         \E r \in 1..Len(Window) :
                            Key(cells[i], params[j]) \in DOMAIN Window[r]}
        IN  /\ Len(rendered.out) = Cardinality(pairs)
            /\ \A <<i, j>> \in pairs :
                  LET row == rendered.out[RowIndex(i, j)]
                      values == ValuesOf(Window, Key(cells[i], params[j]))
                      n == Len(values)
                  IN  /\ row.Cell = cells[i]
                      /\ row.Parameter = params[j]
                      /\ 2 * (row.Average * n - SumSeq(values)) <= n
                      /\ 2 * (SumSeq(values) - row.Average * n) <= n
                      /\ \E x \in 1..n : values[x] = row.Min
                      /\ \E x \in 1..n : values[x] = row.Max
                      /\ \A x \in 1..n :
                            row.Min <= values[x] /\ values[x] <= row.Max

\* The worked example: voltages 3.30, 3.35, 3.40 give average 3.35,
\* min 3.30, max 3.40, latest 3.40 and standard deviation 0.041.
C17_Witness ==
    /\ rendered.fn = "summary"
    /\ rendered.selected_cells = <<"Cell_1">>
    /\ rendered.selected_params = <<"Voltage (V)">>
    /\ ValuesOf(Window, Key("Cell_1", "Voltage (V)")) = <<3300, 3350, 3400>>
    /\ rendered.out = <<[Cell |-> "Cell_1", Parameter |-> "Voltage (V)",
                         Average |-> 3350, Min |-> 3300, Max |-> 3400,
                         Latest |-> 3400, StdDev |-> 41]>>

\* C18: a reading generated for a Faulty cell has current exactly 0 and
\* capacity 0, for every chemistry and phase.
C18_FaultyCurrentZero ==
    (rendered.fn = "generate" /\ rendered.working_condition = "Faulty") =>
        rendered.out.Current = 0 /\ rendered.out.Capacity = 0

\* A Faulty LFP cell read while charging, whose drawn current was 5 A.
C18_Witness ==
    /\ rendered.fn = "generate"
    /\ rendered.working_condition = "Faulty"
    /\ rendered.cell_type = "lfp"
    /\ rendered.phase = "charging"
    /\ PhaseCurrent(rendered.phase, rendered.draws[2]) = 500
    /\ rendered.out.Current = 0

\* C19: the Overvoltage alert is present iff the returned voltage exceeds
\* the chemistry ceiling; a voltage equal to the ceiling raises none.
C19_OvervoltageIffAboveCeiling ==
    rendered.fn = "generate" =>
        ((\E i \in 1..Len(rendered.out.alerts) :
             rendered.out.alerts[i] = "Overvoltage")
         <=> rendered.out.Voltage * 100 > Ceiling(rendered.cell_type))

\* A charging NMC cell whose voltage is capped at exactly 4.2 V.
C19_Witness ==
    /\ rendered.fn = "generate"
    /\ rendered.cell_type = "nmc"
    /\ rendered.phase = "charging"
    /\ rendered.out.Voltage = 4200
    /\ rendered.out.Alert = "None"

\* C20 as stated: the state of charge of every reading lies in [50, 100].
C20_Original ==
    rendered.fn = "generate" =>
        500 <= rendered.out.SoC /\ rendered.out.SoC <= 1000

\* C20 as the code has it: the state of charge is the value drawn from
\* [50, 100] shifted by the phase's change (+2.0 charging, -1.5 discharging,
\* scaled by the working condition) and clamped to [0, 100]; it lies in
\* [48.5, 100], and in [50, 100] unless the cell is discharging.
C20_SocRange ==
    rendered.fn = "generate" =>
        /\ 485 <= rendered.out.SoC
        /\ rendered.out.SoC <= 1000
        /\ (rendered.phase # "discharging"
              \/ rendered.working_condition = "Faulty")
             => 500 <= rendered.out.SoC

\* A Normal cell read while discharging with the lowest draw: 48.5 %.
C20_Witness ==
    /\ rendered.fn = "generate"
    /\ rendered.phase = "discharging"
    /\ rendered.working_condition = "Normal"
    /\ rendered.out.SoC = 485

\* C21: whenever the workflow is active the phase start time is non-null
\* and a duration configuration is stored whose three durations each lie in
\* 1..86400 seconds.
C21_ActiveIsEvaluable ==
    workflow_active =>
        /\ phase_start_time # None
        /\ workflow_config # {}
        /\ StoredConfig.charge_duration \in MinDuration..MaxDuration
        /\ StoredConfig.idle_duration \in MinDuration..MaxDuration
        /\ StoredConfig.discharge_duration \in MinDuration..MaxDuration

\* An active workflow whose phase was overridden to discharging after the
\* clock had moved.
C21_Witness ==
    /\ workflow_active
    /\ op = "start_discharging"
    /\ current_phase = "discharging"
    /\ phase_start_time = now
    /\ now > 0
    /\ workflow_config # {}

\* C22: a tick on an active workflow performs at most one transition of the
\* table, however long the phase has been running; a transition into idle or
\* discharging restarts the timer at the current time, and no transition is
\* taken before the phase has run for its full duration.
C22_OneTransitionPerTick ==
    [][(op' \in TickOps /\ workflow_active) =>
          /\ current_phase = "charging" =>
                (workflow_active' /\ current_phase' \in {"charging", "idle"})
          /\ current_phase = "idle" =>
                (workflow_active' /\ current_phase' \in {"idle", "discharging"})
          /\ current_phase = "discharging" =>
                \/ workflow_active' /\ current_phase' = "discharging"
                \/ ~workflow_active' /\ current_phase' = "idle"
          /\ op' \in {"tick_charged", "tick_idled"} =>
                phase_start_time' = now'
          /\ op' \in TransitionOps =>
                now - phase_start_time >= PhaseDuration]_vars

\* The first tick after a charging phase begun at time 0 comes when all three
\* durations together have elapsed: the workflow is in idle, not further,
\* and the idle phase starts now.
C22_Witness ==
    /\ op = "tick_charged"
    /\ workflow_active
    /\ current_phase = "idle"
    /\ phase_start_time = now
    /\ now >= StoredConfig.charge_duration + StoredConfig.idle_duration
                 + StoredConfig.discharge_duration

\* C23: with the clock advancing and the page being refreshed, and no
\* operator action, an active workflow eventually completes: it reaches
\* active=false with phase=idle.
C23_EventuallyCompletes ==
    workflow_active ~> (~workflow_active /\ current_phase = "idle")

\* The workflow has completed and a later run of the page leaves it so.
C23_Witness ==
    /\ op = "tick_inactive"
    /\ ~workflow_active
    /\ current_phase = "idle"
    /\ phase_start_time = None
    /\ workflow_config # {}

\* C24: an auto-log step appends exactly one entry to the workflow log and
\* exactly one record to the historical records, both with the same phase,
\* and after every step the workflow log is no longer than the record list.
C24_LogAndRecordTogether ==
    [][/\ op' = "autolog" =>
             /\ IsPrefix(workflow_logs, workflow_logs')
             /\ IsPrefix(historical_records, historical_records')
             /\ Len(workflow_logs') = Len(workflow_logs) + 1
             /\ Len(historical_records') = Len(historical_records) + 1
             /\ workflow_logs'[Len(workflow_logs')].phase
                   = historical_records'[Len(historical_records')].Phase
       /\ Len(workflow_logs') <= Len(historical_records')]_vars

\* After a Reset All the workflow was started again and auto-logged once
\* more: two records, one log entry.
C24_Witness ==
    /\ op = "autolog"
    /\ Len(historical_records) = 2
    /\ Len(workflow_logs) = 1

C26_OnlyStartWritesConfig ==
    [][op' # "start" => UNCHANGED workflow_config]_vars

\* Reset All on a workflow that had been started: the durations are kept.
C26_Witness ==
    /\ op = "reset_all"
    /\ workflow_config # {}
    /\ ~workflow_active
    /\ workflow_logs = <<>>
    /\ now > 0

====
